---- MODULE Spec2Model ----
(***************************************************************************)
(* Model of src/controllers/video.controller.js: the six Express handlers  *)
(* getAllVideos, publishAVideo, getVideoById, updateVideo, deleteVideo and *)
(* togglePublishStatus, running concurrently against one MongoDB database  *)
(* (collections videos, likes, comments, users.watchHistory) and one       *)
(* Cloudinary account.                                                     *)
(*                                                                         *)
(* A handler is an async function: the code between two awaits runs        *)
(* without interruption, and each awaited database or storage call takes   *)
(* effect atomically.  One action of the model is therefore one awaited    *)
(* call together with the synchronous code that follows it up to the next  *)
(* awaited call (or up to the response); the first action of a handler     *)
(* also holds the synchronous validation that precedes its first await.    *)
(***************************************************************************)
EXTENDS Integers, Sequences, FiniteSets, TLC

\* Number of HTTP requests served in one behaviour.
MaxRequests == 3
\* Largest video identifier a request may name in req.params.videoId.
MaxTarget == 2

Requests == 1..MaxRequests
Users == {1, 2}
\* A well-formed identifier the collection never issues: it names no document.
UnknownId == MaxRequests + 2
\* Every publishAVideo creates at most one record; identifier 1 may be seeded.
VideoIds == 1..UnknownId

\* A videoId / userId string that isValidObjectId rejects.
InvalidId == 0
\* An optional query parameter that was not sent.
Absent == -1
\* uploadOnCloudinary's null result, and the public_id of no asset.
NoAsset == 0
\* req.query defaults: page = 1, limit = 10.
DefaultPage == 1
DefaultLimit == 10

(***************************************************************************)
(* JavaScript values.  A string is a sequence of one-character strings;    *)
(* a body field is either undefined or a string.                           *)
(***************************************************************************)
Undefined == [def |-> FALSE, str |-> <<>>]
Str(s) == [def |-> TRUE, str |-> s]

RECURSIVE TrimLeft(_)
TrimLeft(s) == IF s # <<>> /\ Head(s) = " " THEN TrimLeft(Tail(s)) ELSE s

RECURSIVE TrimRight(_)
TrimRight(s) ==
    IF s # <<>> /\ s[Len(s)] = " " THEN TrimRight(SubSeq(s, 1, Len(s) - 1)) ELSE s

\* String.prototype.trim
Trim(s) == TrimRight(TrimLeft(s))

\* field?.trim() === ""   (undefined?.trim() is undefined, which is not "")
TrimsToEmpty(field) == field.def /\ Trim(field.str) = <<>>

\* JavaScript truthiness of a body field: undefined and "" are falsy.
Truthy(field) == field.def /\ field.str # <<>>

Texts == {Undefined, Str(<<>>), Str(<<" ">>), Str(<<"a">>)}
GoodDescription == Str(<<"d">>)

\* req.body of publishAVideo and updateVideo: at most one field is unusual.
Bodies ==
    {[title |-> t, description |-> GoodDescription] : t \in Texts}
    \cup {[title |-> Str(<<"a">>), description |-> d] :
            d \in {Undefined, Str(<<>>), Str(<<" ">>)}}

\* req.files of publishAVideo: undefined, both fields, or only one of them.
FileSets == {"none", "both", "videoOnly", "thumbnailOnly"}

\* req.query of getAllVideos.
Queries == {Undefined, Str(<<"a">>)}
SortBys == {"", "views", "createdAt"}
SortTypes == {"", "asc", "desc"}
Pagings == {<<DefaultPage, DefaultLimit>>, <<1, 1>>, <<2, 1>>}

(***************************************************************************)
(* Documents.                                                              *)
(***************************************************************************)
NoVideo ==
    [exists |-> FALSE, id |-> 0, title |-> Undefined, description |-> Undefined,
     videoFile |-> NoAsset, thumbnail |-> NoAsset, owner |-> 0,
     isPublished |-> FALSE, views |-> 0]

\* null / undefined as response data.
Null == [null |-> TRUE]

NoRequest ==
    [kind |-> "", user |-> 0, videoId |-> InvalidId,
     title |-> Undefined, description |-> Undefined, hasFile |-> FALSE]

NoLocal ==
    [video |-> NoVideo, docs |-> <<>>, videoFile |-> NoAsset, thumbnail |-> NoAsset,
     updatedVideo |-> NoVideo]

NoResponse == [status |-> 0, message |-> "", data |-> Null]

VARIABLES
    videos,        \* collection videos: [VideoIds -> document or NoVideo]
    nextVideoId,   \* the next fresh _id of the collection
    cloud,         \* public_ids of the assets currently stored on Cloudinary
    nextAsset,     \* the next fresh public_id
    likes,         \* collection likes: set of <<video, likedBy>>
    comments,      \* collection comments: set of <<video, owner>>
    watchHistory,  \* users.watchHistory: [Users -> sequence of video ids]
    req,           \* per request: the handler, req.user, req.params, req.body
    pc,            \* per request: the await the handler is suspended at
    local,         \* per request: the handler's local constants
    res            \* per request: the response sent

vars == <<videos, nextVideoId, cloud, nextAsset, likes, comments, watchHistory,
          req, pc, local, res>>

db == <<videos, nextVideoId, likes, comments, watchHistory>>
storage == <<cloud, nextAsset>>

SeedVideo ==
    [exists |-> TRUE, id |-> 1, title |-> Str(<<"a">>), description |-> GoodDescription,
     videoFile |-> 1, thumbnail |-> 2, owner |-> 1, isPublished |-> FALSE, views |-> 0]

\* The server starts against an empty database, or against one that already
\* holds an unpublished video of user 1, liked and commented on by user 2
\* (likes and comments are written by other controllers).
InitEmpty ==
    /\ videos = [v \in VideoIds |-> NoVideo]
    /\ nextVideoId = 1
    /\ cloud = {}
    /\ nextAsset = 1
    /\ likes = {}
    /\ comments = {}

InitSeeded ==
    /\ videos = [v \in VideoIds |-> IF v = 1 THEN SeedVideo ELSE NoVideo]
    /\ nextVideoId = 2
    /\ cloud = {1, 2}
    /\ nextAsset = 3
    /\ likes = {<<1, 2>>}
    /\ comments = {<<1, 2>>}

Init ==
    /\ InitEmpty \/ InitSeeded
    /\ watchHistory = [u \in Users |-> <<>>]
    /\ req = [r \in Requests |-> NoRequest]
    /\ pc = [r \in Requests |-> "idle"]
    /\ local = [r \in Requests |-> NoLocal]
    /\ res = [r \in Requests |-> NoResponse]

(***************************************************************************)
(* Request bookkeeping.                                                    *)
(***************************************************************************)
\* Requests arrive one after the other; request r is the r-th to arrive.
StartOK(r) == pc[r] = "idle" /\ \A q \in Requests : q < r => pc[q] # "idle"

\* No handler is suspended at an await.
Quiescent == \A q \in Requests : pc[q] \in {"idle", "done"}

NewRequest(kind, user, videoId, body, hasFile) ==
    [kind |-> kind, user |-> user, videoId |-> videoId,
     title |-> body.title, description |-> body.description, hasFile |-> hasFile]

NoBody == [title |-> Undefined, description |-> Undefined]

\* Once the response is sent the request object is dropped; what remains is
\* which handler served which user for which video.
Released(q) == NewRequest(q.kind, q.user, q.videoId, NoBody, FALSE)

\* res.status(s).json(...) or throw new ApiError(s, m): the handler ends and
\* its local constants go out of scope.
Respond(r, q, status, message, data) ==
    /\ pc' = [pc EXCEPT ![r] = "done"]
    /\ req' = [req EXCEPT ![r] = Released(q)]
    /\ local' = [local EXCEPT ![r] = NoLocal]
    /\ res' = [res EXCEPT ![r] = [status |-> status, message |-> message, data |-> data]]

\* The handler suspends at the await named next, holding the local constants l.
Suspend(r, q, l, next) ==
    /\ pc' = [pc EXCEPT ![r] = next]
    /\ req' = [req EXCEPT ![r] = q]
    /\ local' = [local EXCEPT ![r] = l]
    /\ UNCHANGED res

\* req.params.videoId: malformed, unknown, or an _id the collection has issued
\* (clients learn identifiers from responses; they cannot guess future ones).
TargetIds == {InvalidId, UnknownId} \cup {v \in 1..MaxTarget : v < nextVideoId}

(***************************************************************************)
(* Collaborators outside the controller.                                   *)
(***************************************************************************)
\* uploadOnCloudinary(path): stores a new asset and returns it, or returns null.
UploadResults == {nextAsset, NoAsset}

Upload(result) ==
    IF result = NoAsset
    THEN UNCHANGED storage
    ELSE cloud' = cloud \cup {result} /\ nextAsset' = nextAsset + 1

\* deleteOnCloudinary(public_id): the asset is gone afterwards.
Destroy(publicId) == cloud' = cloud \ {publicId} /\ UNCHANGED nextAsset

\* The video schema requires title and description.
SchemaAccepts(doc) == doc.title.def /\ doc.description.def

(***************************************************************************)
(* getAllVideos                                                            *)
(***************************************************************************)
\* The words of a text: in the alphabet used every letter is a word.
Tokens(text) == {text.str[i] : i \in DOMAIN text.str} \ {" "}

\* $search on index "search-videos": query text against title and description.
SearchStage(query, S) ==
    IF Truthy(query)
    THEN {v \in S : Tokens(query) \cap
                      (Tokens(videos[v].title) \cup Tokens(videos[v].description)) # {}}
    ELSE S

\* $match {owner: ObjectId(userId)}, pushed only if userId was sent.
OwnerStage(userId, S) ==
    IF userId # Absent THEN {v \in S : videos[v].owner = userId} ELSE S

\* Faulty variant: the isPublished stage is not pushed.
PublishedStage_Skipped(S) == S

\* $match {isPublished: true}, pushed always.
PublishedStage(S) == {v \in S : videos[v].isPublished}

\* createdAt grows with the _id.
SortField(v, sortBy) == IF sortBy = "views" THEN videos[v].views ELSE v

\* $sort {[sortBy]: sortType === "asc" ? 1 : -1}, else $sort {createdAt: -1}.
SortKey(v, sortBy, sortType) ==
    IF sortBy # "" /\ sortType # ""
    THEN (IF sortType = "asc" THEN 1 ELSE -1) * SortField(v, sortBy)
    ELSE -v

\* Every order of S the sort stage may produce (equal keys come in any order).
SortStage(S, sortBy, sortType) ==
    {s \in [1..Cardinality(S) -> S] :
        /\ \A i, j \in DOMAIN s : i # j => s[i] # s[j]
        /\ \A i, j \in DOMAIN s :
              i < j => SortKey(s[i], sortBy, sortType) <= SortKey(s[j], sortBy, sortType)}

\* $lookup users as ownerDetails, $unwind: documents whose owner is no user drop out.
LookupOwner(s) ==
    LET joined == [i \in DOMAIN s |->
                     [video |-> videos[s[i]], ownerDetails |-> videos[s[i]].owner]]
    IN  SelectSeq(joined, LAMBDA d : d.ownerDetails \in Users)

Min(a, b) == IF a < b THEN a ELSE b

\* Video.aggregatePaginate(aggregate, {page, limit}).
Paginate(s, page, limit) ==
    [docs |-> SubSeq(s, (page - 1) * limit + 1, Min(page * limit, Len(s))),
     totalDocs |-> Len(s), page |-> page, limit |-> limit]

\* The documents the pipeline of getAllVideos selects, before sorting.
ListMatches(query, userId) ==
    PublishedStage(OwnerStage(userId, SearchStage(query, {v \in VideoIds : videos[v].exists})))

GetAllVideos(r) ==
    /\ StartOK(r)
    /\ \E query \in Queries, userId \in {Absent, InvalidId} \cup Users,
          sortBy \in SortBys, sortType \in SortTypes, paging \in Pagings :
          \* the handler never reads req.user: the caller plays no part
          LET q == NewRequest("getAllVideos", 0, InvalidId, NoBody, FALSE) IN
          IF userId = InvalidId
          THEN Respond(r, q, 400, "Invalid userId", Null)
          ELSE \E s \in SortStage(ListMatches(query, userId), sortBy, sortType) :
                 Respond(r, q, 200, "Videos fetched successfully",
                         Paginate(LookupOwner(s), paging[1], paging[2]))
    /\ UNCHANGED <<db, storage>>

(***************************************************************************)
(* publishAVideo                                                           *)
(***************************************************************************)
\* [title, description].some((field) => field?.trim() === "")
SomeFieldEmpty(body) == TrimsToEmpty(body.title) \/ TrimsToEmpty(body.description)

\* Video.create({...}): the document handed to the collection.
NewVideo(r) ==
    [exists |-> TRUE, id |-> nextVideoId, title |-> req[r].title,
     description |-> req[r].description, videoFile |-> local[r].videoFile,
     thumbnail |-> local[r].thumbnail, owner |-> req[r].user,
     isPublished |-> FALSE, views |-> 0]

\* Validation, the two local paths, then await uploadOnCloudinary(videoFileLocalPath).
PublishAVideo(r) ==
    /\ StartOK(r)
    /\ \E user \in Users, body \in Bodies, files \in FileSets :
          LET q == NewRequest("publishAVideo", user, InvalidId, body, files = "both") IN
          IF SomeFieldEmpty(body)
          THEN /\ Respond(r, q, 400, "All fields are required", Null)
               /\ UNCHANGED storage
          ELSE IF files \in {"videoOnly", "thumbnailOnly"}
          THEN \* req.files.thumbnail[0] or req.files.videoFile[0] of undefined
               /\ Respond(r, q, 500, "TypeError", Null)
               /\ UNCHANGED storage
          ELSE IF files = "none"
          THEN /\ Respond(r, q, 400, "video file local path is required", Null)
               /\ UNCHANGED storage
          ELSE \E up \in UploadResults :
                 /\ Upload(up)
                 /\ Suspend(r, q, [NoLocal EXCEPT !.videoFile = up],
                            "publish:uploadThumbnail")
    /\ UNCHANGED db

\* await uploadOnCloudinary(thumbnailLocalPath), then both null checks.
PublishUploadThumbnail(r) ==
    /\ pc[r] = "publish:uploadThumbnail"
    /\ \E up \in UploadResults :
          /\ Upload(up)
          /\ IF local[r].videoFile = NoAsset
             THEN Respond(r, req[r], 400, "video not found", Null)
             ELSE IF up = NoAsset
             THEN Respond(r, req[r], 400, "thumbnail not found", Null)
             ELSE Suspend(r, req[r], [local[r] EXCEPT !.thumbnail = up],
                          "publish:create")
    /\ UNCHANGED db

\* await Video.create(...): the schema validates the document before the insert.
PublishCreate(r) ==
    /\ pc[r] = "publish:create"
    /\ IF SchemaAccepts(NewVideo(r))
       THEN /\ videos' = [videos EXCEPT ![nextVideoId] = NewVideo(r)]
            /\ nextVideoId' = nextVideoId + 1
            /\ Suspend(r, req[r], [local[r] EXCEPT !.video = NewVideo(r)],
                       "publish:findById")
       ELSE /\ Respond(r, req[r], 500, "ValidationError", Null)
            /\ UNCHANGED <<videos, nextVideoId>>
    /\ UNCHANGED <<likes, comments, watchHistory, storage>>

\* await Video.findById(video._id), then the response with the created document.
PublishFindById(r) ==
    /\ pc[r] = "publish:findById"
    /\ IF videos[local[r].video.id].exists
       THEN Respond(r, req[r], 200, "Video uploaded successfully", local[r].video)
       ELSE Respond(r, req[r], 500, "video upload failed", Null)
    /\ UNCHANGED <<db, storage>>

(***************************************************************************)
(* Checks shared by the handlers.                                          *)
(***************************************************************************)
\* Faulty variant: the owner comparison is left out.
IsOwner_Anyone(video, user) == TRUE

\* video?.owner.toString() !== req.user?._id.toString() is false
IsOwner(video, user) == video.owner = user

\* JavaScript truthiness of the array Video.aggregate resolves to.
ArrayTruthy(docs) == TRUE

\* JavaScript truthiness of updateVideo, the handler itself, which lines 306
\* and 309 test in place of updatedVideo.
HandlerTruthy == TRUE

(***************************************************************************)
(* getVideoById                                                            *)
(***************************************************************************)
\* The document the aggregation builds for video v and the acting user.
DetailDoc(v, user) ==
    [id |-> v, videoFile |-> videos[v].videoFile, title |-> videos[v].title,
     description |-> videos[v].description, views |-> videos[v].views,
     owner |-> videos[v].owner,
     likesCount |-> Cardinality({l \in likes : l[1] = v}),
     isLiked |-> (<<v, user>> \in likes)]

\* Video.aggregate([{$match: {_id}}, ...]): an array of zero or one document.
Aggregate(videoId, user) ==
    IF videos[videoId].exists THEN <<DetailDoc(videoId, user)>> ELSE <<>>

\* video[0]
First(docs) == IF docs = <<>> THEN Null ELSE docs[1]

\* Faulty variant: views is set to the value the aggregation read, plus one.
IncViews_ReadModifyWrite(r) ==
    IF videos[req[r].videoId].exists /\ local[r].docs # <<>>
    THEN [videos EXCEPT ![req[r].videoId].views = local[r].docs[1].views + 1]
    ELSE videos

\* $inc: {views: 1} on the document as it is now; no document, no effect.
IncViews(r) ==
    IF videos[req[r].videoId].exists
    THEN [videos EXCEPT ![req[r].videoId].views = @ + 1]
    ELSE videos

\* $addToSet: {watchHistory: videoId}
AddToSet(history, videoId) ==
    IF \E i \in DOMAIN history : history[i] = videoId
    THEN history
    ELSE Append(history, videoId)

\* Both identifier checks, then await Video.aggregate(...), then if (!video).
\* req.user._id comes from the auth middleware and is always well-formed, so
\* the "Invalid userId" branch is never taken.
GetVideoById(r) ==
    /\ StartOK(r)
    /\ \E user \in Users, videoId \in TargetIds :
          LET q == NewRequest("getVideoById", user, videoId, NoBody, FALSE) IN
          IF videoId = InvalidId
          THEN /\ Respond(r, q, 400, "Invalid videoId", Null)
          ELSE IF ~ArrayTruthy(Aggregate(videoId, user))
          THEN /\ Respond(r, q, 500, "failed to fetch video", Null)
          ELSE Suspend(r, q, [NoLocal EXCEPT !.docs = Aggregate(videoId, user)],
                       "detail:incViews")
    /\ UNCHANGED <<db, storage>>

\* await Video.findByIdAndUpdate(videoId, {$inc: {views: 1}})
DetailIncViews(r) ==
    /\ pc[r] = "detail:incViews"
    /\ videos' = IncViews(r)
    /\ Suspend(r, req[r], local[r], "detail:addToSet")
    /\ UNCHANGED <<nextVideoId, likes, comments, watchHistory, storage>>

\* await User.findByIdAndUpdate(req.user._id, {$addToSet: ...}), then the response.
DetailAddToSet(r) ==
    /\ pc[r] = "detail:addToSet"
    /\ watchHistory' =
          [watchHistory EXCEPT ![req[r].user] = AddToSet(@, req[r].videoId)]
    /\ Respond(r, req[r], 200, "video details fetched successfully", First(local[r].docs))
    /\ UNCHANGED <<videos, nextVideoId, likes, comments, storage>>

(***************************************************************************)
(* updateVideo                                                             *)
(***************************************************************************)
\* Faulty variant: the public_id of the thumbnail just uploaded is taken.
ThumbnailToDelete_New(r) == local[r].thumbnail

\* const thumbnailToDelete = video.thumbnail.public_id
ThumbnailToDelete(r) == local[r].video.thumbnail

\* Video.findByIdAndUpdate(videoId, {title, description, thumbnail}, {new: true})
UpdatedDoc(r) ==
    IF videos[req[r].videoId].exists
    THEN [videos[req[r].videoId] EXCEPT
            !.title = req[r].title, !.description = req[r].description,
            !.thumbnail = local[r].thumbnail]
    ELSE NoVideo

\* Validation, await Video.findById(videoId), owner check, req.file?.path.
UpdateVideo(r) ==
    /\ StartOK(r)
    /\ \E user \in Users, videoId \in TargetIds, body \in Bodies, hasFile \in BOOLEAN :
          LET q == NewRequest("updateVideo", user, videoId, body, hasFile) IN
          IF videoId = InvalidId
          THEN /\ Respond(r, q, 400, "Invalid videoId", Null)
          ELSE IF ~(Truthy(body.title) /\ Truthy(body.description))
          THEN /\ Respond(r, q, 400, "title and description are required", Null)
          ELSE IF ~videos[videoId].exists
          THEN /\ Respond(r, q, 400, "video not found", Null)
          ELSE IF ~IsOwner(videos[videoId], user)
          THEN /\ Respond(r, q, 403, "you are not authorized to update this video", Null)
          ELSE IF ~hasFile
          THEN /\ Respond(r, q, 400, "thumbnail is required", Null)
          ELSE Suspend(r, q, [NoLocal EXCEPT !.video = videos[videoId]], "update:upload")
    /\ UNCHANGED <<db, storage>>

\* await uploadOnCloudinary(thumbnailLocalPath), then the null check.
UpdateUpload(r) ==
    /\ pc[r] = "update:upload"
    /\ \E up \in UploadResults :
          /\ Upload(up)
          /\ IF up = NoAsset
             THEN Respond(r, req[r], 400, "thumbnail not found", Null)
             ELSE Suspend(r, req[r], [local[r] EXCEPT !.thumbnail = up], "update:write")
    /\ UNCHANGED db

\* await Video.findByIdAndUpdate(...), then if (!updateVideo).
UpdateWrite(r) ==
    /\ pc[r] = "update:write"
    /\ videos' = IF videos[req[r].videoId].exists
                 THEN [videos EXCEPT ![req[r].videoId] = UpdatedDoc(r)]
                 ELSE videos
    /\ IF ~HandlerTruthy
       THEN Respond(r, req[r], 500, "failed to update video", Null)
       ELSE Suspend(r, req[r], [local[r] EXCEPT !.updatedVideo = UpdatedDoc(r)],
                    "update:destroy")
    /\ UNCHANGED <<nextVideoId, likes, comments, watchHistory, storage>>

\* if (updateVideo) await deleteOnCloudinary(thumbnailToDelete), then the response.
UpdateDestroy(r) ==
    /\ pc[r] = "update:destroy"
    /\ IF HandlerTruthy
       THEN Destroy(ThumbnailToDelete(r))
       ELSE UNCHANGED storage
    /\ Respond(r, req[r], 200, "video updated successfully",
               IF local[r].updatedVideo.exists THEN local[r].updatedVideo ELSE Null)
    /\ UNCHANGED db

(***************************************************************************)
(* deleteVideo                                                             *)
(***************************************************************************)
\* Validation, await Video.findById(videoId), owner check.
DeleteVideo(r) ==
    /\ StartOK(r)
    /\ \E user \in Users, videoId \in TargetIds :
          LET q == NewRequest("deleteVideo", user, videoId, NoBody, FALSE) IN
          IF videoId = InvalidId
          THEN /\ Respond(r, q, 400, "Invalid videoId", Null)
          ELSE IF ~videos[videoId].exists
          THEN /\ Respond(r, q, 400, "video not found", Null)
          ELSE IF ~IsOwner(videos[videoId], user)
          THEN /\ Respond(r, q, 403, "you are not authorized to delete this video", Null)
          ELSE Suspend(r, q, [NoLocal EXCEPT !.video = videos[videoId]], "delete:record")
    /\ UNCHANGED <<db, storage>>

\* await Video.findByIdAndDelete(video._id), then if (!videoDeleted).
DeleteRecord(r) ==
    /\ pc[r] = "delete:record"
    /\ IF videos[local[r].video.id].exists
       THEN /\ videos' = [videos EXCEPT ![local[r].video.id] = NoVideo]
            /\ Suspend(r, req[r], local[r], "delete:thumbnail")
       ELSE /\ Respond(r, req[r], 500, "failed to delete video", Null)
            /\ UNCHANGED videos
    /\ UNCHANGED <<nextVideoId, likes, comments, watchHistory, storage>>

\* await deleteOnCloudinary(video.thumbnail.public_id)
DeleteThumbnail(r) ==
    /\ pc[r] = "delete:thumbnail"
    /\ Destroy(local[r].video.thumbnail)
    /\ Suspend(r, req[r], local[r], "delete:videoFile")
    /\ UNCHANGED db

\* await deleteOnCloudinary(video.videoFile.public_id)
DeleteVideoFile(r) ==
    /\ pc[r] = "delete:videoFile"
    /\ Destroy(local[r].video.videoFile)
    /\ Suspend(r, req[r], local[r], "delete:likes")
    /\ UNCHANGED db

\* await Like.deleteMany({video: videoId})
DeleteLikes(r) ==
    /\ pc[r] = "delete:likes"
    /\ likes' = {l \in likes : l[1] # req[r].videoId}
    /\ Suspend(r, req[r], local[r], "delete:comments")
    /\ UNCHANGED <<videos, nextVideoId, comments, watchHistory, storage>>

\* await Comment.deleteMany({video: videoId}), then the response.
DeleteComments(r) ==
    /\ pc[r] = "delete:comments"
    /\ comments' = {c \in comments : c[1] # req[r].videoId}
    /\ Respond(r, req[r], 200, "video deleted successfully", Null)
    /\ UNCHANGED <<videos, nextVideoId, likes, watchHistory, storage>>

(***************************************************************************)
(* togglePublishStatus                                                     *)
(***************************************************************************)
\* Faulty variant: the flag is set to true instead of negated.
ToggledFlag_AlwaysTrue(r) == TRUE

\* $set: {isPublished: !video?.isPublished}
ToggledFlag(r) == ~local[r].video.isPublished

\* Validation, await Video.findById(videoId), owner check.
TogglePublishStatus(r) ==
    /\ StartOK(r)
    /\ \E user \in Users, videoId \in TargetIds :
          LET q == NewRequest("togglePublishStatus", user, videoId, NoBody, FALSE) IN
          IF videoId = InvalidId
          THEN /\ Respond(r, q, 400, "Invalid videoId", Null)
          ELSE IF ~videos[videoId].exists
          THEN /\ Respond(r, q, 404, "Video not found", Null)
          ELSE IF ~IsOwner(videos[videoId], user)
          THEN /\ Respond(r, q, 403, "You are not authorized to update this video", Null)
          ELSE Suspend(r, q, [NoLocal EXCEPT !.video = videos[videoId]], "toggle:write")
    /\ UNCHANGED <<db, storage>>

\* await Video.findByIdAndUpdate(videoId, {$set: ...}, {new: true}), the null
\* check, then the response with the new flag alone.
ToggleWrite(r) ==
    /\ pc[r] = "toggle:write"
    /\ IF videos[req[r].videoId].exists
       THEN /\ videos' = [videos EXCEPT ![req[r].videoId].isPublished = ToggledFlag(r)]
            /\ Respond(r, req[r], 200, "Video publish toggled successfully",
                       [isPublished |-> ToggledFlag(r)])
       ELSE /\ Respond(r, req[r], 500, "Failed to toogle video publish status", Null)
            /\ UNCHANGED videos
    /\ UNCHANGED <<nextVideoId, likes, comments, watchHistory, storage>>

(***************************************************************************)
(* Specifications.                                                         *)
(***************************************************************************)
\* A handler resumes after an await.
Resume(r) ==
    \/ PublishUploadThumbnail(r)
    \/ PublishCreate(r)
    \/ PublishFindById(r)
    \/ DetailIncViews(r)
    \/ DetailAddToSet(r)
    \/ UpdateUpload(r)
    \/ UpdateWrite(r)
    \/ UpdateDestroy(r)
    \/ DeleteRecord(r)
    \/ DeleteThumbnail(r)
    \/ DeleteVideoFile(r)
    \/ DeleteLikes(r)
    \/ DeleteComments(r)
    \/ ToggleWrite(r)

\* A request arrives and its handler runs to its first await.
Arrive(r) ==
    \/ GetAllVideos(r)
    \/ PublishAVideo(r)
    \/ GetVideoById(r)
    \/ UpdateVideo(r)
    \/ DeleteVideo(r)
    \/ TogglePublishStatus(r)

\* Requests overlap freely.
Next == \E r \in Requests : Arrive(r) \/ Resume(r)

Spec == Init /\ [][Next]_vars

\* A client that sends each request only after the response to the one before.
SeqGetAllVideos(r) == Quiescent /\ GetAllVideos(r)
SeqPublishAVideo(r) == Quiescent /\ PublishAVideo(r)
SeqGetVideoById(r) == Quiescent /\ GetVideoById(r)
SeqUpdateVideo(r) == Quiescent /\ UpdateVideo(r)
SeqDeleteVideo(r) == Quiescent /\ DeleteVideo(r)
SeqTogglePublishStatus(r) == Quiescent /\ TogglePublishStatus(r)

SeqArrive(r) ==
    \/ SeqGetAllVideos(r)
    \/ SeqPublishAVideo(r)
    \/ SeqGetVideoById(r)
    \/ SeqUpdateVideo(r)
    \/ SeqDeleteVideo(r)
    \/ SeqTogglePublishStatus(r)

SeqNext == \E r \in Requests : SeqArrive(r) \/ Resume(r)

SeqSpec == Init /\ [][SeqNext]_vars

(***************************************************************************)
(* Properties.                                                             *)
(***************************************************************************)
Done(r) == pc[r] = "done"

\* Request r arrives in this step.
Arrives(r) == pc[r] = "idle" /\ pc'[r] # "idle"

Mutating == {"updateVideo", "deleteVideo", "togglePublishStatus"}

\* Request r arrives for an existing video that its acting user does not own.
ArrivesAsNonOwner(r) ==
    /\ Arrives(r)
    /\ req'[r].kind \in Mutating
    /\ req'[r].videoId \in VideoIds
    /\ videos[req'[r].videoId].exists
    /\ videos[req'[r].videoId].owner # req'[r].user

\* The step changes no video, like or comment record and no remote asset.
NothingMutated ==
    videos' = videos /\ likes' = likes /\ comments' = comments /\ cloud' = cloud

\* C1, as stated: an update, delete or publish-toggle request for an existing
\* video by a user who is not its owner always fails with 403 and changes
\* nothing, whatever its other inputs are.
C1_NonOwnerAlwaysForbidden ==
    [][\A r \in Requests :
          ArrivesAsNonOwner(r) =>
              Done(r)' /\ res'[r].status = 403 /\ NothingMutated]_vars

\* C1, amended: such a request always fails and changes nothing; the failure
\* is 403, except that an update whose title or description is missing or
\* empty fails with 400 ("title and description are required"), because
\* updateVideo validates the body before it looks at the owner.
C1_NonOwnerRejected ==
    [][\A r \in Requests :
          ArrivesAsNonOwner(r) =>
              /\ Done(r)'
              /\ NothingMutated
              /\ \/ res'[r].status = 403
                 \/ /\ req'[r].kind = "updateVideo"
                    /\ res'[r].status = 400
                    /\ res'[r].message = "title and description are required"]_vars

\* A non-owner's request for an existing, liked and commented video was
\* answered with 403.
C1_Witness ==
    \E r \in Requests :
        /\ Done(r)
        /\ req[r].kind \in Mutating
        /\ res[r].status = 403
        /\ videos[req[r].videoId].exists
        /\ videos[req[r].videoId].owner # req[r].user
        /\ \E l \in likes : l[1] = req[r].videoId
        /\ \E c \in comments : c[1] = req[r].videoId

\* Request t is a completed toggle that set video v published.
PublishedBy(t, v) ==
    /\ Done(t)
    /\ req[t].kind = "togglePublishStatus"
    /\ req[t].videoId = v
    /\ res[t].status = 200
    /\ res[t].data.isPublished

\* C2: every video in a page getAllVideos returned had isPublished = true,
\* and was set published by a completed toggle (records are created
\* unpublished, so no video is listed before a toggle published it).
C2_ListOnlyPublished ==
    \A r \in Requests :
        (Done(r) /\ req[r].kind = "getAllVideos" /\ res[r].status = 200) =>
            \A i \in DOMAIN res[r].data.docs :
                /\ res[r].data.docs[i].video.isPublished
                /\ \E t \in Requests : PublishedBy(t, res[r].data.docs[i].video.id)

\* A list request returned a video that a publishAVideo of this run created.
C2_Witness ==
    \E r, p \in Requests :
        /\ Done(r) /\ req[r].kind = "getAllVideos" /\ res[r].status = 200
        /\ Done(p) /\ req[p].kind = "publishAVideo" /\ res[p].status = 200
        /\ \E i \in DOMAIN res[r].data.docs :
              res[r].data.docs[i].video.id = res[p].data.id

\* Request d is a delete of video v that completed successfully.
Deleted(d, v) ==
    Done(d) /\ req[d].kind = "deleteVideo" /\ req[d].videoId = v /\ res[d].status = 200

\* C3: when a delete completes successfully the record, both assets and all
\* likes and comments of the video are gone, and a detail request that
\* arrives afterwards for that video fails with NotFound.
C3_DeleteThenFetchNotFound ==
    [][\A r \in Requests :
          /\ (pc[r] = "delete:comments" /\ Done(r)' /\ res'[r].status = 200) =>
                /\ ~videos'[req[r].videoId].exists
                /\ local[r].video.thumbnail \notin cloud'
                /\ local[r].video.videoFile \notin cloud'
                /\ ~\E l \in likes' : l[1] = req[r].videoId
                /\ ~\E c \in comments' : c[1] = req[r].videoId
          /\ (/\ Arrives(r)
              /\ req'[r].kind = "getVideoById"
              /\ \E d \in Requests : Deleted(d, req'[r].videoId)) =>
                Done(r)' /\ res'[r].status \in {404, 500}]_vars

\* The detail requests for video v whose view increment has been executed.
Viewed(v) ==
    {r \in Requests :
        /\ req[r].kind = "getVideoById"
        /\ req[r].videoId = v
        /\ pc[r] = "detail:addToSet" \/ (Done(r) /\ res[r].status = 200)}

Occurrences(history, v) == Cardinality({i \in DOMAIN history : history[i] = v})

\* C4: the view count of an existing video is the number of detail requests
\* for it whose increment ran, however the requests interleave, and after a
\* completed detail request by user U for video V, U's watch history holds V
\* exactly once.
C4_ViewsAndHistory ==
    /\ \A v \in VideoIds :
          videos[v].exists => videos[v].views = Cardinality(Viewed(v))
    /\ \A r \in Requests :
          (Done(r) /\ req[r].kind = "getVideoById" /\ res[r].status = 200) =>
              Occurrences(watchHistory[req[r].user], req[r].videoId) = 1

\* Two detail requests of one user for one existing video have completed.
C4_Witness ==
    \E r, q \in Requests :
        /\ r # q
        /\ Done(r) /\ req[r].kind = "getVideoById" /\ res[r].status = 200
        /\ Done(q) /\ req[q].kind = "getVideoById" /\ res[q].status = 200
        /\ req[r].videoId = req[q].videoId
        /\ req[r].user = req[q].user
        /\ videos[req[r].videoId].exists
        /\ videos[req[r].videoId].views = 2

\* The step completes toggle request r with success.
ToggleSucceeds(r) ==
    pc[r] = "toggle:write" /\ Done(r)' /\ res'[r].status = 200

\* Request r follows directly on a successful toggle of the same video.
FollowsToggle(r) ==
    /\ r - 1 \in Requests
    /\ req[r - 1].kind = "togglePublishStatus"
    /\ req[r - 1].videoId = req[r].videoId
    /\ res[r - 1].status = 200

\* C5 (requests sent one after the other): a successful toggle stores and
\* returns the negation of the stored flag, its response data holds the flag
\* and nothing else, and a toggle that follows directly on a toggle of the
\* same video succeeds, returns the negation of what the first returned and
\* leaves the stored flag at that value, the original one.
C5_ToggleTwice ==
    [][\A r \in Requests :
          /\ ToggleSucceeds(r) =>
                /\ res'[r].data.isPublished = ~videos[req[r].videoId].isPublished
                /\ videos'[req[r].videoId].isPublished = res'[r].data.isPublished
                /\ DOMAIN res'[r].data = {"isPublished"}
          /\ (pc[r] = "toggle:write" /\ Done(r)' /\ FollowsToggle(r)) =>
                /\ res'[r].status = 200
                /\ res'[r].data.isPublished = ~res[r - 1].data.isPublished
                /\ videos'[req[r].videoId].isPublished = ~res[r - 1].data.isPublished]_vars

\* The seeded video, unpublished at first, was toggled twice in succession:
\* the responses were true, then false, and the stored flag is false again.
C5_Witness ==
    /\ Done(1) /\ req[1].kind = "togglePublishStatus" /\ req[1].videoId = 1
    /\ Done(2) /\ req[2].kind = "togglePublishStatus" /\ req[2].videoId = 1
    /\ res[1].status = 200 /\ res[1].data.isPublished
    /\ res[2].status = 200 /\ ~res[2].data.isPublished
    /\ ~videos[1].isPublished

\* A body field that is missing, or blank after trimming.
MissingOrBlank(field) == ~field.def \/ Trim(field.str) = <<>>

\* C6: a publishAVideo whose title or description is missing or blank after
\* trimming fails with 400 in validation: it never gets as far as an upload
\* or the creation of a record.
C6_MissingOrBlankRejected ==
    \A r \in Requests :
        (req[r].kind = "publishAVideo" /\ pc[r] \notin {"idle", "done"}) =>
            ~MissingOrBlank(req[r].title) /\ ~MissingOrBlank(req[r].description)

\* C7: updateVideo removes the old thumbnail from storage only if its
\* database write produced an updated record.
C7_OldThumbnailKeptOnFailedWrite ==
    [][\A r \in Requests :
          (/\ pc[r] = "update:destroy"
           /\ pc'[r] # pc[r]
           /\ ThumbnailToDelete(r) \in cloud
           /\ ThumbnailToDelete(r) \notin cloud') =>
              local[r].updatedVideo.exists]_vars

\* C8: a detail request with well-formed identifiers whose aggregation found
\* no document is answered with an error (404 or 500), not with success.
C8_NoDocumentIsAnError ==
    \A r \in Requests :
        (/\ Done(r)
         /\ req[r].kind = "getVideoById"
         /\ req[r].videoId # InvalidId
         /\ res[r].data = Null) =>
            res[r].status \in {404, 500}

\* C9: an update that responds with success returns the updated record; an
\* update whose database write yields no record fails with 500.
C9_UpdateReturnsRecord ==
    \A r \in Requests :
        (Done(r) /\ req[r].kind = "updateVideo" /\ res[r].status = 200) =>
            res[r].data # Null /\ res[r].data.exists

\* C10: every existing record references a file asset and a thumbnail asset
\* that are in remote storage, under every interleaving of the handlers.
C10_ReferencedAssetsStored ==
    \A v \in VideoIds :
        videos[v].exists =>
            videos[v].videoFile \in cloud /\ videos[v].thumbnail \in cloud

\* An update replaced the thumbnail of a video that still exists: the old
\* asset is gone from storage, the new one is stored and referenced.
C10_Witness ==
    \E r \in Requests :
        /\ Done(r) /\ req[r].kind = "updateVideo" /\ res[r].status = 200
        /\ res[r].data # Null
        /\ videos[req[r].videoId].exists
        /\ videos[req[r].videoId].thumbnail = res[r].data.thumbnail
        /\ SeedVideo.thumbnail \notin cloud
        /\ videos[req[r].videoId].thumbnail \in cloud

====
